---- MODULE Spec2Model ----
(***************************************************************************)
(* Model of crates/edr_napi/src/result.rs: the conversion of an engine     *)
(* edr_evm::ExecutionResult into the N-API ExecutionResult, together with  *)
(* the ownership of the byte buffers it hands to the host runtime.         *)
(*                                                                         *)
(* An edr_eth::Bytes value is a reference-counted handle onto a heap       *)
(* region; clone() adds a strong reference, drop removes one, and the      *)
(* region is deallocated when the last one goes.  The host is modelled by  *)
(* the contract of Env::create_buffer_with_borrowed_data: on success it    *)
(* keeps (data, length, hint, finalize) and calls finalize(hint) once      *)
(* after the buffer object has become unreachable.  What a failed call     *)
(* does with the hint it was given is decided inside the napi crate, so    *)
(* both outcomes are modelled: the hint is dropped, or it is never dropped.*)
(***************************************************************************)
EXTENDS Integers, Sequences, FiniteSets, TLC

VARIABLES
    engine,       \* the edr_evm::ExecutionResult borrowed by ExecutionResult::new
    resultAlive,  \* TRUE until the owner of the engine-side result drops it
    otherRefs,    \* strong references to the payload held elsewhere in the engine
    heap,         \* sequence of memory regions: [bytes, strong, frees]
    views,        \* host buffer objects made by create_buffer_with_borrowed_data
    calls,        \* one record per completed call of ExecutionResult::new
    trips         \* enum conversions performed (external -> internal -> external)

vars == <<engine, resultAlive, otherRefs, heap, views, calls, trips>>

----------------------------------------------------------------------------
(* Bounds of the model *)

MaxLogs == 2
MaxCalls == 2
MaxOtherRefs == 1
MaxTrips == 2

(* Program constants *)

AddressLen == 20

----------------------------------------------------------------------------
(* Option<T> is a sequence of length at most one. *)

None == <<>>

Some(x) == <<x>>

IsSome(o) == Len(o) = 1

Unwrap(o) == o[1]

----------------------------------------------------------------------------
(* SuccessReason: lines 11-40 *)

SuccessReason == {"Stop", "Return", "SelfDestruct"}

EvmSuccessReason == {"evm::Stop", "evm::Return", "evm::SelfDestruct"}

\* impl From<edr_evm::SuccessReason> for SuccessReason
SuccessReasonFrom(eval) ==
    CASE eval = "evm::Stop" -> "Stop"
      [] eval = "evm::Return" -> "Return"
      [] eval = "evm::SelfDestruct" -> "SelfDestruct"

\* impl From<SuccessReason> for edr_evm::SuccessReason
EvmSuccessReasonFrom(value) ==
    CASE value = "Stop" -> "evm::Stop"
      [] value = "Return" -> "evm::Return"
      [] value = "SelfDestruct" -> "evm::SelfDestruct"

----------------------------------------------------------------------------
(* ExceptionalHalt: lines 80-156 *)

ExceptionalHalt ==
    {"OutOfGas", "OpcodeNotFound", "InvalidFEOpcode", "InvalidJump",
     "NotActivated", "StackUnderflow", "StackOverflow", "OutOfOffset",
     "CreateCollision", "PrecompileError", "NonceOverflow",
     "CreateContractSizeLimit", "CreateContractStartingWithEF",
     "CreateInitCodeSizeLimit"}

\* The halt reasons of the engine that have no payload and an external twin.
PlainHaltTags == ExceptionalHalt \ {"OutOfGas"}

\* The halt reasons that only occur inside an Inspector (lines 126-130).
InternalOnlyHaltTags ==
    {"OverflowPayment", "StateChangeDuringStaticCall",
     "CallNotAllowedInsideStatic", "OutOfFunds", "CallTooDeep"}

\* edr_evm::OutOfGasError: the payload of HaltReason::OutOfGas (lines 106, 140).
OutOfGasError == {"Basic", "Memory"}

Halt(tag, err) == [tag |-> tag, err |-> err]

\* edr_evm::HaltReason
HaltReason ==
    {Halt("OutOfGas", e) : e \in OutOfGasError}
        \cup {Halt(t, "") : t \in PlainHaltTags \cup InternalOnlyHaltTags}

InternalOnlyHalts == {Halt(t, "") : t \in InternalOnlyHaltTags}

\* The outcome of unreachable!(..): a panic, no value.
Panic == "panic: unreachable"

\* A plausible slip: a catch-all arm instead of unreachable!().
ExceptionalHaltFromCatchAll(halt) ==
    IF halt.tag \in ExceptionalHalt THEN halt.tag ELSE "OutOfGas"

\* impl From<edr_evm::HaltReason> for ExceptionalHalt
ExceptionalHaltFrom(halt) ==
    CASE halt.tag = "OutOfGas" -> "OutOfGas"
      [] halt.tag = "OpcodeNotFound" -> "OpcodeNotFound"
      [] halt.tag = "InvalidFEOpcode" -> "InvalidFEOpcode"
      [] halt.tag = "InvalidJump" -> "InvalidJump"
      [] halt.tag = "NotActivated" -> "NotActivated"
      [] halt.tag = "StackUnderflow" -> "StackUnderflow"
      [] halt.tag = "StackOverflow" -> "StackOverflow"
      [] halt.tag = "OutOfOffset" -> "OutOfOffset"
      [] halt.tag = "CreateCollision" -> "CreateCollision"
      [] halt.tag = "PrecompileError" -> "PrecompileError"
      [] halt.tag = "NonceOverflow" -> "NonceOverflow"
      [] halt.tag = "CreateContractSizeLimit" -> "CreateContractSizeLimit"
      [] halt.tag = "CreateContractStartingWithEF" -> "CreateContractStartingWithEF"
      [] halt.tag = "CreateInitCodeSizeLimit" -> "CreateInitCodeSizeLimit"
      [] halt.tag \in {"OverflowPayment", "StateChangeDuringStaticCall",
                       "CallNotAllowedInsideStatic", "OutOfFunds",
                       "CallTooDeep"} -> Panic

\* A plausible slip: two neighbouring arms crossed.
HaltReasonFromCrossed(value) ==
    CASE value = "OutOfGas" -> Halt("OutOfGas", "Basic")
      [] value = "StackUnderflow" -> Halt("StackOverflow", "")
      [] value = "StackOverflow" -> Halt("StackUnderflow", "")
      [] OTHER -> Halt(value, "")

\* impl From<ExceptionalHalt> for edr_evm::HaltReason
HaltReasonFrom(value) ==
    CASE value = "OutOfGas" -> Halt("OutOfGas", "Basic")
      [] value = "OpcodeNotFound" -> Halt("OpcodeNotFound", "")
      [] value = "InvalidFEOpcode" -> Halt("InvalidFEOpcode", "")
      [] value = "InvalidJump" -> Halt("InvalidJump", "")
      [] value = "NotActivated" -> Halt("NotActivated", "")
      [] value = "StackUnderflow" -> Halt("StackUnderflow", "")
      [] value = "StackOverflow" -> Halt("StackOverflow", "")
      [] value = "OutOfOffset" -> Halt("OutOfOffset", "")
      [] value = "CreateCollision" -> Halt("CreateCollision", "")
      [] value = "PrecompileError" -> Halt("PrecompileError", "")
      [] value = "NonceOverflow" -> Halt("NonceOverflow", "")
      [] value = "CreateContractSizeLimit" -> Halt("CreateContractSizeLimit", "")
      [] value = "CreateContractStartingWithEF" ->
            Halt("CreateContractStartingWithEF", "")
      [] value = "CreateInitCodeSizeLimit" -> Halt("CreateInitCodeSizeLimit", "")

----------------------------------------------------------------------------
(* Gas: a u64 kept at its full width as four 16-bit limbs, least            *)
(* significant first, and napi's BigInt {sign_bit, words: Vec<u64>}.        *)

LimbMax == 2^16 - 1

U64(a, b, c, d) == <<a, b, c, d>>

\* 0, 21000, 2^32 and u64::MAX
GasValues ==
    {U64(0, 0, 0, 0), U64(21000, 0, 0, 0), U64(0, 0, 1, 0),
     U64(LimbMax, LimbMax, LimbMax, LimbMax)}

\* A plausible slip: the gas value narrowed to 32 bits on the way out.
BigIntFromTruncated(value) ==
    [sign_bit |-> FALSE, words |-> <<U64(value[1], value[2], 0, 0)>>]

\* BigInt::from(*gas_used): one 64-bit word, sign bit clear (lines 192-193, 236, 252)
BigIntFrom(value) == [sign_bit |-> FALSE, words |-> <<value>>]

----------------------------------------------------------------------------
(* edr_eth::Bytes: a reference-counted handle [region, len] onto heap[region] *)

\* A fresh allocation holding `bytes`, made by `owner` ("engine" or "host").
Region(bytes, owner) == [bytes |-> bytes, owner |-> owner, strong |-> 1, frees |-> 0]

\* return_value.as_ptr(): the base address of the region the handle points to
AsPtr(b) == b.region

\* return_value.len()
BytesLen(b) == b.len

\* A plausible slip: the payload duplicated into a fresh allocation.
CloneBytesDeepCopy(hp, b) ==
    [heap |-> Append(hp, Region(hp[b.region].bytes, "engine")),
     bytes |-> [region |-> Len(hp) + 1, len |-> b.len]]

\* A plausible slip: the handle taken out of the borrowed result without a
\* new strong reference (a bitwise copy of the handle).
CloneBytesNoRetain(hp, b) == [heap |-> hp, bytes |-> b]

\* return_value.clone() / output.clone(): one more strong reference to the
\* same region (lines 197, 213, 234)
CloneBytes(hp, b) ==
    [heap |-> [hp EXCEPT ![b.region].strong = @ + 1], bytes |-> b]

\* Dropping a Bytes handle: one strong reference less; the region is
\* deallocated when the last one goes (a drop with none left frees again).
DropBytes(hp, b) ==
    [hp EXCEPT ![b.region] =
        [bytes |-> @.bytes,
         owner |-> @.owner,
         strong |-> @.strong - 1,
         frees |-> IF @.strong <= 1 THEN @.frees + 1 ELSE @.frees]]

\* A plausible slip: the finalizer forgets the handle instead of dropping it.
FinalizeCallbackForget(hp, hint) == [heap |-> hp, drops |-> 0]

\* |return_value: edr_eth::Bytes, _env| { mem::drop(return_value); }
\* (lines 204-206, 221-223, 242-244)
FinalizeCallback(hp, hint) == [heap |-> DropBytes(hp, hint), drops |-> 1]

----------------------------------------------------------------------------
(* The host side of the bridge *)

HostError == [source |-> "create_buffer_with_borrowed_data"]

\* What the host does with one registration: it succeeds, or it fails and
\* the hint is dropped, or it fails and the hint is never dropped.
HostOutcomes == {"ok", "err_dropped", "err_leaked"}

\* env.create_buffer_with_borrowed_data(ptr, len, hint, finalize)
\*     .map(JsBufferValue::into_raw)?            (lines 199-209, 216-226, 237-247)
\* Success: the host keeps pointer, length, the moved-in handle and the
\* finalizer, and returns the buffer object; handoff records the strong
\* count of the region at that moment.  Failure: the error is returned; the
\* caller has moved the handle away and has nothing left to release.
CreateBufferWithBorrowedData(hp, vs, data, length, hint, host) ==
    IF host # "ok"
    THEN [ok |-> FALSE,
          heap |-> IF host = "err_dropped" THEN DropBytes(hp, hint) ELSE hp,
          views |-> vs, js |-> 0,
          err |-> Some(HostError), handoff |-> None,
          hintDrops |-> IF host = "err_dropped" THEN 1 ELSE 0]
    ELSE [ok |-> TRUE, heap |-> hp,
          views |-> Append(vs, [data |-> data, length |-> length, hint |-> hint,
                                state |-> "reachable", runs |-> 0, drops |-> 0]),
          js |-> Len(vs) + 1, err |-> None,
          handoff |-> Some([view |-> Len(vs) + 1, strong |-> hp[hint.region].strong]),
          hintDrops |-> 0]

\* let return_value = return_value.clone(); unsafe { env.create_buffer_... }
Bridge(hp, vs, src, host) ==
    LET c == CloneBytes(hp, src)
    IN  CreateBufferWithBorrowedData(c.heap, vs, AsPtr(c.bytes), BytesLen(c.bytes),
                                     c.bytes, host)

\* Buffer::from(address.as_slice()): the slice copied into a buffer of its own
BufferFrom(hp, slice) ==
    [heap |-> Append(hp, Region(slice, "host")),
     buf |-> [region |-> Len(hp) + 1, len |-> Len(slice)]]

\* A plausible slip: an absent address replaced by the default (all-zero) one.
MapAddressOrDefault(hp, address) ==
    LET b == BufferFrom(hp, IF IsSome(address) THEN Unwrap(address)
                            ELSE [i \in 1..AddressLen |-> 0])
    IN  [heap |-> b.heap, address |-> Some(b.buf)]

\* address.map(|address| Buffer::from(address.as_slice()))   (line 227)
MapAddress(hp, address) ==
    IF IsSome(address)
    THEN LET b == BufferFrom(hp, Unwrap(address))
         IN  [heap |-> b.heap, address |-> Some(b.buf)]
    ELSE [heap |-> hp, address |-> None]

----------------------------------------------------------------------------
(* Logs *)

LogIds == {"logA", "logB"}

\* ExecutionLog::new(env, log) of crate::log: the external record of one log,
\* or the host's error.
ExecutionLogNew(log, fail) ==
    IF fail
    THEN [ok |-> FALSE, val |-> [log |-> ""], err |-> [source |-> "ExecutionLog::new", log |-> log]]
    ELSE [ok |-> TRUE, val |-> [log |-> log], err |-> [source |-> "", log |-> ""]]

RECURSIVE CollectLogsReversed(_, _, _, _)
\* A plausible slip: the converted logs gathered newest first.
CollectLogsReversed(logs, failLogs, i, acc) ==
    IF i > Len(logs) THEN [ok |-> TRUE, val |-> acc, err |-> None]
    ELSE LET r == ExecutionLogNew(logs[i], i \in failLogs)
         IN  IF r.ok THEN CollectLogsReversed(logs, failLogs, i + 1, <<r.val>> \o acc)
             ELSE [ok |-> FALSE, val |-> <<>>, err |-> Some(r.err)]

RECURSIVE CollectLogsSkipFailed(_, _, _, _)
\* A plausible slip: a log that fails to convert is left out (filter_map).
CollectLogsSkipFailed(logs, failLogs, i, acc) ==
    IF i > Len(logs) THEN [ok |-> TRUE, val |-> acc, err |-> None]
    ELSE LET r == ExecutionLogNew(logs[i], i \in failLogs)
         IN  CollectLogsSkipFailed(logs, failLogs, i + 1,
                                   IF r.ok THEN Append(acc, r.val) ELSE acc)

RECURSIVE CollectLogs(_, _, _, _)
\* logs.iter().map(|log| ExecutionLog::new(env, log)).collect::<napi::Result<_>>()
\* (lines 185-188): in order, stopping at the first error.
CollectLogs(logs, failLogs, i, acc) ==
    IF i > Len(logs) THEN [ok |-> TRUE, val |-> acc, err |-> None]
    ELSE LET r == ExecutionLogNew(logs[i], i \in failLogs)
         IN  IF r.ok THEN CollectLogs(logs, failLogs, i + 1, Append(acc, r.val))
             ELSE [ok |-> FALSE, val |-> <<>>, err |-> Some(r.err)]

----------------------------------------------------------------------------
(* ExecutionResult::new (lines 176-257) *)

Call(outcome, error, result, handoff, hintDrops, failLogs, host) ==
    [outcome |-> outcome, error |-> error, result |-> result,
     handoff |-> handoff, hintDrops |-> hintDrops,
     failLogs |-> failLogs, host |-> host]

\* The `?` of lines 188, 209, 226, 247: Err(e) returned, no result built.
Failed(hp, vs, err, hintDrops, failLogs, host) ==
    [heap |-> hp, views |-> vs,
     call |-> Call("err", err, None, None, hintDrops, failLogs, host)]

\* Ok(Self { result })   (line 256)
Built(hp, vs, result, handoff, failLogs, host) ==
    [heap |-> hp, views |-> vs,
     call |-> Call("ok", None, Some(result), handoff, 0, failLogs, host)]

\* match output { Output::Call(..) => .., Output::Create(..) => .. }  (lines 195-230)
NewOutput(output, hp, vs, host) ==
    LET b == Bridge(hp, vs, output.return_value, host)
    IN  IF ~b.ok
        THEN [ok |-> FALSE, heap |-> b.heap, views |-> b.views, err |-> b.err,
              hintDrops |-> b.hintDrops, handoff |-> None,
              val |-> [kind |-> ""]]
        ELSE IF output.kind = "Call"
        THEN [ok |-> TRUE, heap |-> b.heap, views |-> b.views, err |-> None,
              hintDrops |-> 0, handoff |-> b.handoff,
              val |-> [kind |-> "CallOutput", return_value |-> b.js]]
        ELSE LET a == MapAddress(b.heap, output.address)
             IN  [ok |-> TRUE, heap |-> a.heap, views |-> b.views, err |-> None,
                  hintDrops |-> 0, handoff |-> b.handoff,
                  val |-> [kind |-> "CreateOutput", return_value |-> b.js,
                           address |-> a.address]]

\* edr_evm::ExecutionResult::Success { .. } => ..   (lines 178-232)
NewSuccess(r, hp, vs, failLogs, host) ==
    LET lg == CollectLogs(r.logs, failLogs, 1, <<>>)
    IN  IF ~lg.ok THEN Failed(hp, vs, lg.err, 0, failLogs, host)
        ELSE LET o == NewOutput(r.output, hp, vs, host)
             IN  IF ~o.ok
                 THEN Failed(o.heap, o.views, o.err, o.hintDrops, failLogs, host)
                 ELSE Built(o.heap, o.views,
                            [variant |-> "SuccessResult",
                             reason |-> SuccessReasonFrom(r.reason),
                             gas_used |-> BigIntFrom(r.gas_used),
                             gas_refunded |-> BigIntFrom(r.gas_refunded),
                             logs |-> lg.val,
                             output |-> o.val],
                            o.handoff, failLogs, host)

\* edr_evm::ExecutionResult::Revert { gas_used, output } => ..   (lines 233-249)
NewRevert(r, hp, vs, failLogs, host) ==
    LET b == Bridge(hp, vs, r.output, host)
    IN  IF ~b.ok
        THEN Failed(b.heap, b.views, b.err, b.hintDrops, failLogs, host)
        ELSE Built(b.heap, b.views,
                   [variant |-> "RevertResult",
                    gas_used |-> BigIntFrom(r.gas_used),
                    output |-> b.js],
                   b.handoff, failLogs, host)

\* edr_evm::ExecutionResult::Halt { reason, gas_used } => ..   (lines 250-253)
NewHalt(r, hp, vs, failLogs, host) ==
    LET reason == ExceptionalHaltFrom(r.reason)
    IN  IF reason = Panic
        THEN [heap |-> hp, views |-> vs,
              call |-> Call("panic", None, None, None, 0, failLogs, host)]
        ELSE Built(hp, vs,
                   [variant |-> "HaltResult",
                    reason |-> reason,
                    gas_used |-> BigIntFrom(r.gas_used)],
                   None, failLogs, host)

\* pub fn new(env: &Env, result: &edr_evm::ExecutionResult) -> napi::Result<Self>
ExecutionResultNew(r, hp, vs, failLogs, host) ==
    CASE r.variant = "Success" -> NewSuccess(r, hp, vs, failLogs, host)
      [] r.variant = "Revert" -> NewRevert(r, hp, vs, failLogs, host)
      [] r.variant = "Halt" -> NewHalt(r, hp, vs, failLogs, host)

----------------------------------------------------------------------------
(* Inputs *)

RECURSIVE SeqsUpTo(_, _)
SeqsUpTo(S, n) ==
    IF n = 0 THEN {<<>>}
    ELSE LET shorter == SeqsUpTo(S, n - 1)
         IN  shorter \cup {Append(q, x) : q \in {t \in shorter : Len(t) = n - 1}, x \in S}

\* Return data of a Success: empty and 0xdeadbeef
ReturnPayloads == {<<>>, <<222, 173, 190, 239>>}

\* Output of a Revert: empty and the selector of Error(string), 0x08c379a0
RevertPayloads == {<<>>, <<8, 195, 121, 160>>}

LogSeqs == SeqsUpTo(LogIds, MaxLogs)

ZeroAddress == [i \in 1..AddressLen |-> 0]

Addresses == {ZeroAddress, [i \in 1..AddressLen |-> i]}

AddressOptions == {None} \cup {Some(a) : a \in Addresses}

\* The engine's payload lives in region 1.
PayloadHandle(payload) == [region |-> 1, len |-> Len(payload)]

Outputs(payload) ==
    {[kind |-> "Call", return_value |-> PayloadHandle(payload)]}
        \cup {[kind |-> "Create", return_value |-> PayloadHandle(payload),
               address |-> a] : a \in AddressOptions}

\* (reason, gas_used, gas_refunded) of the Success inputs: every reason, and
\* gas values on both sides of the 32-bit boundary.
SuccessScalars ==
    {<<"evm::Stop", U64(0, 0, 0, 0), U64(0, 0, 0, 0)>>,
     <<"evm::Return", U64(21000, 0, 0, 0), U64(0, 0, 1, 0)>>,
     <<"evm::SelfDestruct", U64(LimbMax, LimbMax, LimbMax, LimbMax), U64(21000, 0, 0, 0)>>}

SuccessResults(payload) ==
    {[variant |-> "Success", reason |-> sc[1], gas_used |-> sc[2],
      gas_refunded |-> sc[3], logs |-> l, output |-> o] :
        sc \in SuccessScalars, l \in LogSeqs, o \in Outputs(payload)}

RevertResults(payload) ==
    {[variant |-> "Revert", gas_used |-> g, output |-> PayloadHandle(payload)] :
        g \in GasValues}

HaltResults ==
    {[variant |-> "Halt", reason |-> h, gas_used |-> g] :
        h \in HaltReason, g \in GasValues}

HasPayload(r) == r.variant \in {"Success", "Revert"}

\* The Bytes handle the engine-side result owns.
PayloadOf(r) == IF r.variant = "Success" THEN r.output.return_value ELSE r.output

----------------------------------------------------------------------------
(* The state machine *)

Init ==
    /\ \/ \E payload \in ReturnPayloads \cup RevertPayloads :
            /\ \/ payload \in ReturnPayloads /\ engine \in SuccessResults(payload)
               \/ payload \in RevertPayloads /\ engine \in RevertResults(payload)
            /\ otherRefs \in 0..MaxOtherRefs
            /\ heap = <<[Region(payload, "engine") EXCEPT !.strong = 1 + otherRefs]>>
       \/ /\ engine \in HaltResults
          /\ otherRefs = 0
          /\ heap = <<>>
    /\ resultAlive = TRUE
    /\ views = <<>>
    /\ calls = <<>>
    /\ trips = <<>>

Panicked == \E i \in 1..Len(calls) : calls[i].outcome = "panic"

\* One call of ExecutionResult::new on the borrowed engine-side result; the
\* host decides which log conversions fail and how the registration ends.
New(failLogs, host) ==
    /\ resultAlive
    /\ ~Panicked
    /\ Len(calls) < MaxCalls
    /\ LET out == ExecutionResultNew(engine, heap, views, failLogs, host)
       IN  /\ heap' = out.heap
           /\ views' = out.views
           /\ calls' = Append(calls, out.call)
    /\ UNCHANGED <<engine, resultAlive, otherRefs, trips>>

\* The owner of the engine-side result drops it.
DropEngineResult ==
    /\ resultAlive
    /\ resultAlive' = FALSE
    /\ heap' = IF HasPayload(engine) THEN DropBytes(heap, PayloadOf(engine)) ELSE heap
    /\ UNCHANGED <<engine, otherRefs, views, calls, trips>>

\* Another holder of the same Bytes inside the engine drops its handle.
DropOtherRef ==
    /\ otherRefs > 0
    /\ otherRefs' = otherRefs - 1
    /\ heap' = DropBytes(heap, PayloadOf(engine))
    /\ UNCHANGED <<engine, resultAlive, views, calls, trips>>

\* The host loses its last reference to a buffer object.
HostCollect(i) ==
    /\ views[i].state = "reachable"
    /\ views' = [views EXCEPT ![i].state = "unreachable"]
    /\ UNCHANGED <<engine, resultAlive, otherRefs, heap, calls, trips>>

\* The host's collector finalizes an unreachable buffer object: it calls the
\* registered callback with the captured handle.
HostFinalize(i) ==
    /\ views[i].state = "unreachable"
    /\ LET f == FinalizeCallback(heap, views[i].hint)
       IN  /\ heap' = f.heap
           /\ views' = [views EXCEPT ![i] =
                          [@ EXCEPT !.state = "finalized",
                                    !.runs = @ + 1,
                                    !.drops = @ + f.drops]]
    /\ UNCHANGED <<engine, resultAlive, otherRefs, calls, trips>>

\* The log conversions the host fails in a call.
FailLogChoices == IF engine.variant = "Success" THEN SUBSET (1..Len(engine.logs)) ELSE {{}}

\* What the host does with the registration of the payload, when the call
\* gets as far as asking for it.
HostChoices(failLogs) ==
    IF HasPayload(engine) /\ failLogs = {} THEN HostOutcomes ELSE {"ok"}

Next ==
    \/ \E failLogs \in FailLogChoices : \E host \in HostChoices(failLogs) :
          New(failLogs, host)
    \/ DropEngineResult
    \/ DropOtherRef
    \/ \E i \in 1..Len(views) : HostCollect(i)
    \/ \E i \in 1..Len(views) : HostFinalize(i)

Spec == Init /\ [][Next]_vars

----------------------------------------------------------------------------
(* The enum conversions on their own: every external value is taken to the *)
(* engine's enum and back.                                                 *)

RoundTripSuccessReason(value) ==
    /\ Len(trips) < MaxTrips
    /\ LET internal == EvmSuccessReasonFrom(value)
       IN  trips' = Append(trips, [enum |-> "SuccessReason", external |-> value,
                                   internal |-> internal,
                                   back |-> SuccessReasonFrom(internal)])
    /\ UNCHANGED <<engine, resultAlive, otherRefs, heap, views, calls>>

RoundTripExceptionalHalt(value) ==
    /\ Len(trips) < MaxTrips
    /\ LET internal == HaltReasonFrom(value)
       IN  trips' = Append(trips, [enum |-> "ExceptionalHalt", external |-> value,
                                   internal |-> internal,
                                   back |-> ExceptionalHaltFrom(internal)])
    /\ UNCHANGED <<engine, resultAlive, otherRefs, heap, views, calls>>

InitConv ==
    /\ engine = [variant |-> "Halt", reason |-> Halt("OutOfGas", "Basic"),
                 gas_used |-> U64(21000, 0, 0, 0)]
    /\ resultAlive = TRUE
    /\ otherRefs = 0
    /\ heap = <<>>
    /\ views = <<>>
    /\ calls = <<>>
    /\ trips = <<>>

NextConv ==
    \/ \E value \in SuccessReason : RoundTripSuccessReason(value)
    \/ \E value \in ExceptionalHalt : RoundTripExceptionalHalt(value)

SpecConv == InitConv /\ [][NextConv]_vars

----------------------------------------------------------------------------
(* Vocabulary of the properties *)

CallIdx == 1..Len(calls)

ViewIdx == 1..Len(views)

Min(S) == CHOOSE x \in S : \A y \in S : x <= y

RECURSIVE Flatten(_)
\* The limbs of a word vector, least significant first.
Flatten(words) == IF words = <<>> THEN <<>> ELSE Head(words) \o Flatten(Tail(words))

RECURSIVE Trim(_)
\* A limb vector without its leading (most significant) zero limbs.
Trim(limbs) ==
    IF limbs # <<>> /\ limbs[Len(limbs)] = 0
    THEN Trim(SubSeq(limbs, 1, Len(limbs) - 1))
    ELSE limbs

\* The BigInt b denotes the same number as the u64 v.
NumericallyEqual(b, v) == ~b.sign_bit /\ Trim(Flatten(b.words)) = Trim(v)

\* The bytes the engine-side result holds.
EngineBytes == heap[PayloadOf(engine).region].bytes

\* What the host reads through a buffer object.
ViewContents(v) == SubSeq(heap[v.data].bytes, 1, v.length)

\* The buffer object standing for the payload in an external result.
PayloadView(x) ==
    views[IF x.variant = "SuccessResult" THEN x.output.return_value ELSE x.output]

\* Handles a failed registration left behind without dropping them.
LeakedHints ==
    Cardinality({i \in CallIdx : calls[i].outcome = "err" /\ calls[i].failLogs = {}
                                    /\ calls[i].hintDrops = 0})

\* Every strong reference to the payload has a known holder: the engine-side
\* result, the other engine holders, the finalizers not yet run, and the
\* handles a failed registration never dropped.
StrongAccounted ==
    HasPayload(engine) =>
        heap[1].strong = (IF resultAlive THEN 1 ELSE 0) + otherRefs
                           + Cardinality({i \in ViewIdx : views[i].state # "finalized"})
                           + LeakedHints

\* Every registered finalizer belongs to a call that returned a result.
ViewsAccounted ==
    /\ Len(views) = Cardinality({i \in CallIdx : calls[i].handoff # None})
    /\ \A i \in CallIdx : calls[i].handoff # None => calls[i].outcome = "ok"

InternalOnlyInput == engine.variant = "Halt" /\ engine.reason \in InternalOnlyHalts

----------------------------------------------------------------------------
(* C1: whenever ExecutionResult::new returns a result, its variant is the  *)
(* one of the input (Success -> SuccessResult, Revert -> RevertResult,     *)
(* Halt -> HaltResult with one of the 14 external reasons) and gas_used    *)
(* (and gas_refunded for Success) denote the input's numbers at full       *)
(* 64-bit width; and when no host operation fails (and the input is not an *)
(* internal-only halt) a result is returned.                               *)
C1_VariantAndGasExact ==
    \A i \in CallIdx :
        LET c == calls[i]
        IN  /\ c.outcome = "ok" =>
                 LET x == Unwrap(c.result)
                 IN  /\ NumericallyEqual(x.gas_used, engine.gas_used)
                     /\ CASE engine.variant = "Success" ->
                                /\ x.variant = "SuccessResult"
                                /\ NumericallyEqual(x.gas_refunded, engine.gas_refunded)
                          [] engine.variant = "Revert" -> x.variant = "RevertResult"
                          [] engine.variant = "Halt" ->
                                /\ x.variant = "HaltResult"
                                /\ x.reason \in ExceptionalHalt
            /\ (c.failLogs = {} /\ c.host = "ok" /\ ~InternalOnlyInput) => c.outcome = "ok"

C1_Witness ==
    \E i \in CallIdx :
        /\ calls[i].outcome = "ok"
        /\ engine.variant = "Success"
        /\ engine.gas_used = U64(LimbMax, LimbMax, LimbMax, LimbMax)
        /\ engine.gas_refunded = U64(21000, 0, 0, 0)

(* C2: for each of the 3 external SuccessReason values and the 14 external *)
(* ExceptionalHalt values, external -> internal -> external gives back the *)
(* value, and the internal value is never an internal-only halt reason.    *)
C2_RoundTripIdentity ==
    \A i \in 1..Len(trips) :
        LET t == trips[i]
        IN  /\ t.back = t.external
            /\ t.enum = "SuccessReason" => t.internal \in EvmSuccessReason
            /\ t.enum = "ExceptionalHalt" => t.internal \in HaltReason \ InternalOnlyHalts

C2_Witness ==
    /\ Len(trips) = 2
    /\ trips[1].enum = "ExceptionalHalt" /\ trips[1].external = "StackUnderflow"
    /\ trips[2].enum = "SuccessReason" /\ trips[2].external = "SelfDestruct"

(* C3: a Halt carrying one of the five internal-only reasons makes         *)
(* ExecutionResult::new panic: no result object and no error value is      *)
(* returned, and no HaltResult ever carries a reason outside the 14.       *)
C3_InternalOnlyHaltPanics ==
    \A i \in CallIdx :
        LET c == calls[i]
        IN  /\ InternalOnlyInput =>
                 c.outcome = "panic" /\ c.result = None /\ c.error = None
            /\ (c.outcome = "ok" /\ engine.variant = "Halt") =>
                 /\ Unwrap(c.result).reason \in ExceptionalHalt
                 /\ Unwrap(c.result).reason = engine.reason.tag
            /\ c.outcome = "panic" => InternalOnlyInput

C3_Witness ==
    \E i \in CallIdx :
        /\ calls[i].outcome = "panic"
        /\ engine.reason.tag = "CallTooDeep"

(* C4: for every buffer handed to the host, in every order of the events   *)
(* that follow: the release callback has run once exactly when the host    *)
(* has finalized the buffer object and not before, each run drops the      *)
(* captured handle once, the memory is not deallocated while the buffer    *)
(* object is reachable (nor before its finalizer has run), and it is never *)
(* deallocated twice.                                                      *)
C4_ReleaseOnceAfterUnreachable ==
    \A i \in ViewIdx :
        LET v == views[i]
            r == heap[v.data]
        IN  /\ v.runs = (IF v.state = "finalized" THEN 1 ELSE 0)
            /\ v.drops = v.runs
            /\ v.state # "finalized" => r.frees = 0 /\ r.strong >= 1
            /\ r.frees <= 1
            /\ r.strong >= 0

C4_Witness ==
    /\ Len(views) = 2
    /\ \A i \in ViewIdx : views[i].state = "finalized" /\ views[i].drops = 1
    /\ ~resultAlive
    /\ heap[1].frees = 1

(* C6: a call in which the conversion of some log fails returns the error  *)
(* of the first failing log and no result object; it has cloned no handle, *)
(* handed no buffer to the host and registered no finalizer.               *)
C6_LogFailureAbortsBeforeBridge ==
    /\ \A i \in CallIdx :
         LET c == calls[i]
         IN  c.failLogs # {} =>
               /\ c.outcome = "err"
               /\ c.error = Some([source |-> "ExecutionLog::new",
                                  log |-> engine.logs[Min(c.failLogs)]])
               /\ c.result = None
               /\ c.handoff = None
               /\ c.hintDrops = 0
    /\ ViewsAccounted
    /\ StrongAccounted

C6_Witness ==
    \E i \in CallIdx :
        /\ calls[i].failLogs = {2}
        /\ calls[i].outcome = "err"
        /\ engine.logs = <<"logA", "logB">>
        /\ engine.output.kind = "Create"

(* C7: in every result for a Create output, the external address is absent *)
(* exactly when the engine's is None, and otherwise is a buffer of 20      *)
(* bytes equal to the engine's address; absence is never turned into the   *)
(* all-zero address, nor the all-zero address into absence.                *)
C7_CreateAddress ==
    \A i \in CallIdx :
        (calls[i].outcome = "ok" /\ engine.variant = "Success"
            /\ engine.output.kind = "Create") =>
            LET out == Unwrap(calls[i].result).output
            IN  /\ out.kind = "CreateOutput"
                /\ IsSome(out.address) <=> IsSome(engine.output.address)
                /\ IsSome(out.address) =>
                     LET a == Unwrap(out.address)
                     IN  /\ a.len = AddressLen
                         /\ Len(heap[a.region].bytes) = AddressLen
                         /\ heap[a.region].bytes = Unwrap(engine.output.address)

C7_Witness ==
    \E i \in CallIdx :
        /\ calls[i].outcome = "ok"
        /\ engine.variant = "Success"
        /\ engine.output.kind = "Create"
        /\ engine.output.address = Some(ZeroAddress)
        /\ IsSome(Unwrap(calls[i].result).output.address)

(* C10: in every result for a Success, logs has as many entries as the     *)
(* engine's log sequence and its j-th entry is the conversion of the       *)
(* engine's j-th log.                                                      *)
C10_LogsInOrder ==
    \A i \in CallIdx :
        (calls[i].outcome = "ok" /\ engine.variant = "Success") =>
            LET logs == Unwrap(calls[i].result).logs
            IN  /\ Len(logs) = Len(engine.logs)
                /\ \A j \in 1..Len(logs) :
                     logs[j] = ExecutionLogNew(engine.logs[j], FALSE).val

C10_Witness ==
    \E i \in CallIdx :
        /\ calls[i].outcome = "ok"
        /\ engine.variant = "Success"
        /\ engine.logs = <<"logB", "logA">>
        /\ Len(Unwrap(calls[i].result).logs) = 2

\* The payload of a returned result is a buffer object over the engine's own
\* region: same base pointer, same length, same bytes while it can be read.
PayloadIsZeroCopy(x) ==
    LET v == PayloadView(x)
    IN  /\ v.data = AsPtr(PayloadOf(engine))
        /\ heap[v.data].owner = "engine"
        /\ v.length = Len(EngineBytes)
        /\ v.state = "reachable" => ViewContents(v) = EngineBytes

HasAddress(i) ==
    /\ calls[i].outcome = "ok"
    /\ engine.variant = "Success"
    /\ engine.output.kind = "Create"
    /\ IsSome(Unwrap(calls[i].result).output.address)

AddressBuffer(i) == Unwrap(Unwrap(calls[i].result).output.address)

(* C8, as stated: every byte payload of a returned result, the Create      *)
(* address included, is a view over the engine's own memory and not a copy.*)
C8_AllPayloadsZeroCopy ==
    \A i \in CallIdx :
        /\ (calls[i].outcome = "ok" /\ HasPayload(engine)) =>
              PayloadIsZeroCopy(Unwrap(calls[i].result))
        /\ HasAddress(i) => heap[AddressBuffer(i).region].owner = "engine"

(* C8, amended: Call return_value, Create return_value and Revert output   *)
(* are views over the engine's own memory with the same length and bytes;  *)
(* the Create address is a fresh host-owned buffer holding a copy of the   *)
(* 20 address bytes.                                                       *)
C8_PayloadZeroCopyAddressCopied ==
    \A i \in CallIdx :
        /\ (calls[i].outcome = "ok" /\ HasPayload(engine)) =>
              PayloadIsZeroCopy(Unwrap(calls[i].result))
        /\ HasAddress(i) =>
              LET a == AddressBuffer(i)
              IN  /\ heap[a.region].owner = "host"
                  /\ a.region # AsPtr(PayloadOf(engine))
                  /\ \A j \in ViewIdx : views[j].data # a.region
                  /\ a.len = AddressLen
                  /\ heap[a.region].bytes = Unwrap(engine.output.address)

C8_Witness ==
    \E i \in CallIdx :
        /\ HasAddress(i)
        /\ EngineBytes = <<222, 173, 190, 239>>
        /\ PayloadView(Unwrap(calls[i].result)).state = "reachable"
        /\ engine.output.address # Some(ZeroAddress)

(* C9, as stated: at the moment of handoff the captured handle is the only *)
(* strong reference to the buffer's memory, so the finalizer alone decides *)
(* when it is deallocated.                                                 *)
C9_CapturedHandleIsOnlyReference ==
    \A i \in CallIdx :
        calls[i].handoff # None => Unwrap(calls[i].handoff).strong = 1

(* C9, amended: the captured handle is a clone of the handle inside the    *)
(* borrowed engine-side result, so at handoff at least two strong          *)
(* references exist; the memory is deallocated only once every finalizer   *)
(* over it has run and the engine-side result and every other holder have  *)
(* dropped their handles, whichever comes last.                            *)
C9_CapturedHandleIsAClone ==
    /\ \A i \in CallIdx :
         calls[i].handoff # None => Unwrap(calls[i].handoff).strong >= 2
    /\ \A i \in ViewIdx :
         heap[views[i].data].frees > 0 =>
            /\ ~resultAlive
            /\ otherRefs = 0
            /\ \A j \in ViewIdx : views[j].state = "finalized"
    /\ (HasPayload(engine) /\ (resultAlive \/ otherRefs > 0)) => heap[1].frees = 0

C9_Witness ==
    \E i \in ViewIdx :
        /\ views[i].state = "finalized"
        /\ resultAlive
        /\ heap[views[i].data].frees = 0
        /\ heap[views[i].data].strong = 1

====
